---- MODULE Spec2Model ----
(***************************************************************************)
(* Model of rb.c: a fixed-capacity single-producer/single-consumer ring    *)
(* buffer of bytes.  The struct's uint32_t fields are kept at their 32-bit *)
(* width: a word is a record [hi, lo] of two 16-bit halves, and every      *)
(* arithmetic operator below works modulo 2^32 on that representation.     *)
(***************************************************************************)
EXTENDS Integers, Sequences, FiniteSets, TLC

(***************************************************************************)
(* uint32_t arithmetic                                                     *)
(***************************************************************************)

\* 2^16: a uint32_t is two halves of this radix
Half == 65536

\* the uint32_t whose value is n, for 0 <= n < 2^31
Word(n) == [hi |-> n \div Half, lo |-> n % Half]

\* UINT32_MAX
MaxWord == [hi |-> Half - 1, lo |-> Half - 1]

\* the value of a uint32_t below 2^31 as a number (array offsets, counts)
ToNat(w) == w.hi * Half + w.lo

\* a + b on uint32_t
Add(a, b) ==
    LET s == a.lo + b.lo
    IN  [hi |-> (a.hi + b.hi + (s \div Half)) % Half, lo |-> s % Half]

\* a - b on uint32_t
Sub(a, b) ==
    LET borrow == IF a.lo < b.lo THEN 1 ELSE 0
    IN  [hi |-> (a.hi + Half - b.hi - borrow) % Half,
         lo |-> (a.lo + Half - b.lo) % Half]

\* a < b on uint32_t
Lt(a, b) == a.hi < b.hi \/ (a.hi = b.hi /\ a.lo < b.lo)

\* #define min(a, b) ((a) < (b)? (a): (b))
min(a, b) == IF Lt(a, b) THEN a ELSE b

RECURSIVE BitAnd(_, _)
\* x & y on one 16-bit half
BitAnd(x, y) ==
    IF x = 0 \/ y = 0 THEN 0
    ELSE (x % 2) * (y % 2) + 2 * BitAnd(x \div 2, y \div 2)

\* a & b on uint32_t
And(a, b) == [hi |-> BitAnd(a.hi, b.hi), lo |-> BitAnd(a.lo, b.lo)]

\* the low and the high 16 bits of the product of two 16-bit halves
MulLo(x, y) ==
    LET m == (x \div 256) * (y % 256) + (x % 256) * (y \div 256)
    IN  ((x % 256) * (y % 256) + (m % 256) * 256) % Half

MulHi(x, y) ==
    LET m == (x \div 256) * (y % 256) + (x % 256) * (y \div 256)
        t == (x % 256) * (y % 256) + (m % 256) * 256
    IN  (t \div Half) + (m \div 256) + (x \div 256) * (y \div 256)

\* a * b on uint32_t (the product is truncated to 32 bits)
Mul(a, b) ==
    [hi |-> (MulHi(a.lo, b.lo) + MulLo(a.hi, b.lo) + MulLo(a.lo, b.hi)) % Half,
     lo |-> MulLo(a.lo, b.lo)]

RECURSIVE Pow2(_)
Pow2(n) == IF n = 0 THEN 1 ELSE 2 * Pow2(n - 1)

\* the bit pattern of 1 << i, 0 <= i <= 31
Bit(i) == IF i < 16 THEN [hi |-> 0, lo |-> Pow2(i)] ELSE [hi |-> Pow2(i - 16), lo |-> 0]

\* the bit pattern of w << 1
Shl1(w) == [hi |-> (2 * w.hi + (w.lo \div (Half \div 2))) % Half, lo |-> (2 * w.lo) % Half]

\* 2^31 - 1: a dividend is taken apart at 2^31
MaxNat == (Half \div 2 - 1) * Half + (Half - 1)

\* a / b on uint32_t, b # 0.  Below 2^31 it is the division of numbers; a
\* divisor from 2^31 on goes at most once; a dividend from 2^31 on is
\* 2^31 + a2, divided in two parts.
Div(a, b) ==
    IF b.hi >= Half \div 2
    THEN (IF Lt(a, b) THEN Word(0) ELSE Word(1))
    ELSE IF a.hi < Half \div 2
    THEN Word(ToNat(a) \div ToNat(b))
    ELSE LET d  == ToNat(b)
             a2 == ToNat([a EXCEPT !.hi = @ - Half \div 2])
             c1 == IF MaxNat % d = d - 1 THEN 1 ELSE 0
             r1 == IF MaxNat % d = d - 1 THEN 0 ELSE (MaxNat % d) + 1
             c2 == IF r1 >= d - (a2 % d) THEN 1 ELSE 0
         IN  Add(Add(Word(MaxNat \div d), Word(a2 \div d)), Word(c1 + c2))

(***************************************************************************)
(* struct ringbuffer and the functions of rb.c                             *)
(***************************************************************************)

\* the length of the in-place array of a static build (rb.h)
RB_BUF_LEN == 4

\* struct ringbuffer before rb_init.  heap is the state of the data pointer
\* of a __DYNAMIC_MALLOC__ build ("unset", "block", "null"); a static build
\* has the array in place ("array"); "freed" is a pointer to a block that
\* was given back.  data holds the bytes of the storage.
NewRing(dynamic) ==
    [in |-> Word(0), out |-> Word(0), mask |-> Word(0), size |-> Word(0),
     esize |-> Word(0), heap |-> IF dynamic THEN "unset" ELSE "array",
     data |-> <<>>]

RECURSIVE roundup_scan(_, _)
\* the for loop of roundup_pow_of_two: [i, mask] at the break
roundup_scan(len, i) ==
    IF i = 0 \/ And(len, Bit(i)) = Bit(i)
    THEN [i |-> i, mask |-> Bit(i)]
    ELSE roundup_scan(len, i - 1)

\* roundup_pow_of_two.  When the loop stops at i = 31, mask is INT_MIN and
\* mask << 1 overflows int: the behaviour is undefined and ub is what the
\* build returns there.
roundup_pow_of_two(len, ub) ==
    IF And(len, Sub(len, Word(1))) = Word(0)
    THEN len
    ELSE LET s == roundup_scan(len, 31)
         IN  IF s.i = 31 THEN ub ELSE Shl1(s.mask)

\* rb_init (r # NULL): [ret, r].  dynamic is the build (__DYNAMIC_MALLOC__),
\* malloc_ok whether malloc returns a block, ub as in roundup_pow_of_two.
rb_init(r, len, esize, dynamic, malloc_ok, ub) ==
    IF len = Word(0) \/ esize = Word(0)
    THEN [ret |-> -1, r |-> r]
    ELSE LET r1 == [r EXCEPT !.esize = esize, !.in = Word(0), !.out = Word(0)]
         IN  IF dynamic
             THEN LET r2 == [r1 EXCEPT !.size = roundup_pow_of_two(Mul(esize, len), ub),
                                       !.heap = IF malloc_ok THEN "block" ELSE "null"]
                  IN  IF ~malloc_ok
                      THEN [ret |-> -1, r |-> r2]
                      ELSE [ret |-> 0, r |-> [r2 EXCEPT !.mask = Sub(r2.size, Word(1))]]
             ELSE LET r2 == [r1 EXCEPT !.size = Div(Word(RB_BUF_LEN), esize)]
                  IN  IF And(r2.size, Sub(r2.size, Word(1))) # Word(0)
                      THEN [ret |-> -1, r |-> r2]
                      ELSE [ret |-> 0, r |-> [r2 EXCEPT !.mask = Sub(r2.size, Word(1))]]

rb_size(r) == r.size

\* a variant: the data pointer is left as it is after free
rb_deinit_dangling(r) ==
    LET r1 == [r EXCEPT !.in = Word(0), !.out = Word(0)]
    IN  IF r.heap = "array"
        THEN [freed |-> "none", r |-> r1]
        ELSE [freed |-> IF r.heap = "null" THEN "none" ELSE r.heap,
              r     |-> IF r.heap = "null" THEN r1
                        ELSE [r1 EXCEPT !.heap = "freed", !.data = <<>>]]

\* rb_deinit (r # NULL): [freed, r].  freed is the state of the pointer
\* that was passed to free: "block" for a live block, "none" when free was
\* not called; after free the bytes of the block are gone.
rb_deinit(r) ==
    LET r1 == [r EXCEPT !.in = Word(0), !.out = Word(0)]
    IN  IF r.heap = "array"
        THEN [freed |-> "none", r |-> r1]
        ELSE [freed |-> IF r.heap = "null" THEN "none" ELSE r.heap,
              r     |-> IF r.heap = "null" THEN [r1 EXCEPT !.heap = "null"]
                        ELSE [r1 EXCEPT !.heap = "null", !.data = <<>>]]

\* a variant: the difference reduced to an offset, as the cursors are
rb_avail_masked(r) == And(Sub(r.in, r.out), r.mask)

\* space used in ringbuffer
rb_avail(r) == Sub(r.in, r.out)

\* a variant: the occupancy is not subtracted
rb_unused_whole(r) == r.size

\* space left in ringbuffer
rb_unused(r) == Sub(r.size, Sub(r.in, r.out))

rb_is_empty(r) == r.in = r.out

rb_is_full(r) == Lt(r.mask, rb_avail(r))

\* memcpy(data + off, src + from, n): src is a sequence, from counts from 0
memcpy_to(data, off, src, from, n) ==
    [i \in DOMAIN data |->
        IF off <= i /\ i < off + n THEN src[from + (i - off) + 1] ELSE data[i]]

\* memcpy(buf, data + off, n): the n bytes read
memcpy_from(data, off, n) == [k \in 1..n |-> data[off + k - 1]]

\* a variant: the cursor is reduced to an offset when it is stored
rb_in_clamped(r, buf, len) ==
    LET left == rb_unused(r)
        len1 == min(len, left)
        l    == min(len1, Sub(r.size, And(r.in, r.mask)))
        d1   == memcpy_to(r.data, ToNat(And(r.in, r.mask)), buf, 0, ToNat(l))
        d2   == memcpy_to(d1, 0, buf, ToNat(l), ToNat(Sub(len1, l)))
    IN  [ret |-> len1, r |-> [r EXCEPT !.data = d2, !.in = And(Add(r.in, len1), r.mask)]]

\* a variant: the second memcpy copies from buf, not from buf + l
rb_in_second_from_start(r, buf, len) ==
    LET left == rb_unused(r)
        len1 == min(len, left)
        l    == min(len1, Sub(r.size, And(r.in, r.mask)))
        d1   == memcpy_to(r.data, ToNat(And(r.in, r.mask)), buf, 0, ToNat(l))
        d2   == memcpy_to(d1, 0, buf, 0, ToNat(Sub(len1, l)))
    IN  [ret |-> len1, r |-> [r EXCEPT !.data = d2, !.in = Add(r.in, len1)]]

\* a variant: the first memcpy starts at the offset of the read cursor
rb_in_at_read_cursor(r, buf, len) ==
    LET left == rb_unused(r)
        len1 == min(len, left)
        l    == min(len1, Sub(r.size, And(r.out, r.mask)))
        d1   == memcpy_to(r.data, ToNat(And(r.out, r.mask)), buf, 0, ToNat(l))
        d2   == memcpy_to(d1, 0, buf, ToNat(l), ToNat(Sub(len1, l)))
    IN  [ret |-> len1, r |-> [r EXCEPT !.data = d2, !.in = Add(r.in, len1)]]

\* rb_in: [ret, r]; buf is the caller's byte sequence, len its length
rb_in(r, buf, len) ==
    LET left == rb_unused(r)
        len1 == min(len, left)
        l    == min(len1, Sub(r.size, And(r.in, r.mask)))
        d1   == memcpy_to(r.data, ToNat(And(r.in, r.mask)), buf, 0, ToNat(l))
        d2   == memcpy_to(d1, 0, buf, ToNat(l), ToNat(Sub(len1, l)))
    IN  [ret |-> len1, r |-> [r EXCEPT !.data = d2, !.in = Add(r.in, len1)]]

\* a variant: the bytes of the first chunk are cleared once they are read
rb_out_scrubbing(r, len) ==
    LET avail == rb_avail(r)
        len1  == min(len, avail)
        l     == min(len1, Sub(r.size, And(r.out, r.mask)))
    IN  [ret |-> len1,
         buf |-> memcpy_from(r.data, ToNat(And(r.out, r.mask)), ToNat(l))
                 \o memcpy_from(r.data, 0, ToNat(Sub(len1, l))),
         r   |-> [r EXCEPT !.out = Add(r.out, len1),
                           !.data = memcpy_to(r.data, ToNat(And(r.out, r.mask)),
                                              [k \in 1..ToNat(l) |-> 0], 0, ToNat(l))]]

\* rb_out: [ret, buf, r]; buf is what the two memcpy calls put at buf[0..]
rb_out(r, len) ==
    LET avail == rb_avail(r)
        len1  == min(len, avail)
        l     == min(len1, Sub(r.size, And(r.out, r.mask)))
    IN  [ret |-> len1,
         buf |-> memcpy_from(r.data, ToNat(And(r.out, r.mask)), ToNat(l))
                 \o memcpy_from(r.data, 0, ToNat(Sub(len1, l))),
         r   |-> [r EXCEPT !.out = Add(r.out, len1)]]

\* a variant: the read cursor advances, as in rb_out
rb_peek_advancing(r, len) ==
    LET avail == rb_avail(r)
        len1  == min(len, avail)
        l     == min(len1, Sub(rb_size(r), And(r.out, r.mask)))
    IN  [buf |-> memcpy_from(r.data, ToNat(And(r.out, r.mask)), ToNat(l))
                 \o memcpy_from(r.data, 0, ToNat(Sub(len1, l))),
         r   |-> [r EXCEPT !.out = Add(r.out, len1)]]

\* a variant: the second memcpy is left out
rb_peek_first_chunk(r, len) ==
    LET avail == rb_avail(r)
        len1  == min(len, avail)
        l     == min(len1, Sub(rb_size(r), And(r.out, r.mask)))
    IN  [buf |-> memcpy_from(r.data, ToNat(And(r.out, r.mask)), ToNat(l)),
         r   |-> r]

\* rb_peek: [buf, r]; buf is what the two memcpy calls put at buf[0..]
rb_peek(r, len) ==
    LET avail == rb_avail(r)
        len1  == min(len, avail)
        l     == min(len1, Sub(rb_size(r), And(r.out, r.mask)))
    IN  [buf |-> memcpy_from(r.data, ToNat(And(r.out, r.mask)), ToNat(l))
                 \o memcpy_from(r.data, 0, ToNat(Sub(len1, l))),
         r   |-> r]

(***************************************************************************)
(* Bounds of the model                                                     *)
(***************************************************************************)

\* the longest request of a call, in bytes
MaxLen == 3
\* the bytes a producer writes are 1..MaxByte
MaxByte == 2
\* the number of calls of one behaviour
MaxCalls == 4
\* rb_init(&rb, count, es) was called with <<count, es>> in Setups: a heap
\* block of 1, 4 or 8 bytes, an array taken as 4, 2 or 0 elements
Setups == {<<1, 1>>, <<2, 2>>, <<1, 5>>}

Byte == 1..MaxByte

\* the caller's buffers: n bytes that count up from b and wrap to 1 after
\* MaxByte, so that neighbouring bytes differ (rb.c never looks at a byte)
Ramp(b, n) == [k \in 1..n |-> ((b + k - 2) % MaxByte) + 1]

Bufs == {Ramp(b, n) : b \in Byte, n \in 0..MaxLen}

\* the requested lengths: short ones, and the largest uint32_t
Lens == {Word(n) : n \in 0..MaxLen} \cup {MaxWord}

\* the number of bytes that went through the buffer before the behaviour
\* starts, modulo 2^32: none, or so many that the cursors are about to wrap
Elapsed == {Word(0), MaxWord}

(***************************************************************************)
(* State                                                                   *)
(***************************************************************************)

VARIABLES
    rb,       \* the struct ringbuffer
    dynamic,  \* the build: TRUE with __DYNAMIC_MALLOC__
    setup,    \* the rb_init call: its arguments len and esize, its value ret
    call,     \* the last call: arguments, results, the struct before it
    fifo,     \* the bytes accepted by rb_in and not yet returned by rb_out
    W,        \* the sum of the values returned by rb_in
    R,        \* the sum of the values returned by rb_out
    calls,    \* the number of calls made
    prod,     \* the producer thread inside rb_in: its place and its locals
    cons,     \* the consumer thread inside rb_out or rb_peek, likewise
    sent,     \* all bytes the write cursor was advanced over, in order
    recv,     \* all bytes rb_out has returned, in order
    hist,     \* the calls of a scripted run, in order, with their results
    demo      \* the loops of phtread_in and phtread_out: places and locals

vars ==
    <<rb, dynamic, setup, call, fifo, W, R, calls, prod, cons, sent, recv, hist, demo>>

\* what the calls made one at a time keep, and what the two threads keep
seqvars == <<call, fifo, W, R>>
thrvars == <<prod, cons, sent, recv>>

\* a thread outside any call
Idle ==
    [pc |-> "idle", op |-> "none", buf |-> <<>>, len |-> Word(0), l |-> Word(0),
     at |-> Word(0), todo |-> {}, got1 |-> <<>>, got2 |-> <<>>, ooo |-> FALSE]

\* the two loops before they start.  p and c are the places of phtread_in
\* and phtread_out; msg, len, w_ofs are df_in and the locals of the do
\* loop; avail_bytes, head, check_error those of phtread_out; begun and
\* written are the payloads phtread_in has prepared and written whole, read
\* the payloads phtread_out has taken out of the ring.
NoDemo ==
    [p |-> "top", msg |-> <<>>, len |-> 0, w_ofs |-> 0, begun |-> <<>>, written |-> 0,
     c |-> "top", avail_bytes |-> Word(0), head |-> <<>>, check_error |-> 0,
     read |-> <<>>]

\* a call: op is the function, len and buf its arguments (buf: the bytes
\* offered to rb_in), ret its value, got the bytes it put in the caller's
\* buffer, before the struct and queued the unread bytes when it was made,
\* rep how many times in a row this function was called with this len,
\* freed what rb_deinit passed to free ("none" when it did not call it)
NoCall(r) ==
    [op |-> "none", len |-> Word(0), buf |-> <<>>, ret |-> Word(0), got |-> <<>>,
     before |-> r, queued |-> <<>>, rep |-> 0, freed |-> "none"]

Rep(op, len) == IF call.op = op /\ call.len = len THEN call.rep + 1 ELSE 1

\* the storage of a ring after a successful rb_init: the in-place array has
\* RB_BUF_LEN bytes, the malloc block r->size bytes.  No byte of it was ever
\* written: it holds 0, which no producer writes, so that a byte read before
\* it was stored shows.
Storage(r) ==
    [i \in 0..((IF r.heap = "array" THEN RB_BUF_LEN ELSE ToNat(r.size)) - 1) |-> 0]

\* a ring on which rb_init succeeded, through which e bytes have gone (none
\* can have gone through a ring of capacity 0)
Init ==
    \E dyn \in BOOLEAN, args \in Setups, e \in Elapsed :
        LET count == args[1]
            es    == args[2]
            res   == rb_init(NewRing(dyn), Word(count), Word(es), dyn, TRUE, Word(0))
            ring  == [res.r EXCEPT !.data = Storage(res.r), !.in = e, !.out = e]
        IN  /\ res.ret = 0
            /\ rb_size(ring) = Word(0) => e = Word(0)
            /\ rb = ring
            /\ dynamic = dyn
            /\ setup = [len |-> Word(count), esize |-> Word(es), ret |-> res.ret]
            /\ call = NoCall(ring)
            /\ fifo = <<>>
            /\ W = 0
            /\ R = 0
            /\ calls = 0
            /\ prod = Idle
            /\ cons = Idle
            /\ sent = <<>>
            /\ recv = <<>>
            /\ hist = <<>>
            /\ demo = NoDemo

\* the producer calls rb_in(&rb, buf, len)
In(buf) ==
    /\ calls < MaxCalls
    /\ LET res == rb_in(rb, buf, Word(Len(buf)))
       IN  /\ rb' = res.r
           /\ call' = [op |-> "in", len |-> Word(Len(buf)), buf |-> buf,
                       ret |-> res.ret, got |-> <<>>, before |-> rb, queued |-> fifo,
                       rep |-> Rep("in", Word(Len(buf))), freed |-> "none"]
           /\ fifo' = fifo \o SubSeq(buf, 1, ToNat(res.ret))
           /\ W' = W + ToNat(res.ret)
    /\ calls' = calls + 1
    /\ UNCHANGED <<demo, hist, dynamic, setup, R, thrvars>>

\* the consumer calls rb_out(&rb, buf, len)
Out(len) ==
    /\ calls < MaxCalls
    /\ LET res == rb_out(rb, len)
       IN  /\ rb' = res.r
           /\ call' = [op |-> "out", len |-> len, buf |-> <<>>,
                       ret |-> res.ret, got |-> res.buf, before |-> rb, queued |-> fifo,
                       rep |-> Rep("out", len), freed |-> "none"]
           /\ fifo' = SubSeq(fifo, ToNat(res.ret) + 1, Len(fifo))
           /\ R' = R + ToNat(res.ret)
    /\ calls' = calls + 1
    /\ UNCHANGED <<demo, hist, dynamic, setup, W, thrvars>>

\* the consumer calls rb_peek(&rb, buf, len)
Peek(len) ==
    /\ calls < MaxCalls
    /\ LET res == rb_peek(rb, len)
       IN  /\ rb' = res.r
           /\ call' = [op |-> "peek", len |-> len, buf |-> <<>>,
                       ret |-> Word(0), got |-> res.buf, before |-> rb, queued |-> fifo,
                       rep |-> Rep("peek", len), freed |-> "none"]
    /\ calls' = calls + 1
    /\ UNCHANGED <<demo, hist, dynamic, setup, fifo, W, R, thrvars>>

Next ==
    \/ \E buf \in Bufs : In(buf)
    \/ \E len \in Lens : Out(len)
    \/ \E len \in Lens : Peek(len)

Spec == Init /\ [][Next]_vars

(***************************************************************************)
(* rb_init on its own: the struct before rb_init, then one call of it      *)
(***************************************************************************)

\* the arguments rb_init is tried with: 0, small numbers, and numbers around
\* 2^16, 2^30, 2^31 and 2^32
Args ==
    {Word(n) : n \in 0..6}
    \cup {Word(Half - 1), Word(Half), Word(Half + 1), Bit(30), Add(Bit(30), Word(1)),
          Bit(31), Add(Bit(31), Word(1)), MaxWord}

\* what a build returns for the int overflow of mask << 1 in
\* roundup_pow_of_two: the bits shifted out (0), or mask as it was
Overflowed == {Word(0), Bit(31)}

InitNew ==
    \E dyn \in BOOLEAN :
        /\ rb = NewRing(dyn)
        /\ dynamic = dyn
        /\ setup = [len |-> Word(0), esize |-> Word(0), ret |-> 1]
        /\ call = NoCall(NewRing(dyn))
        /\ fifo = <<>>
        /\ W = 0
        /\ R = 0
        /\ calls = 0
        /\ prod = Idle
        /\ cons = Idle
        /\ sent = <<>>
        /\ recv = <<>>
        /\ hist = <<>>
        /\ demo = NoDemo

\* the program calls rb_init(&rb, len, esize)
Construct(len, esize, malloc_ok, ub) ==
    /\ setup.ret = 1
    /\ LET res == rb_init(rb, len, esize, dynamic, malloc_ok, ub)
       IN  /\ rb' = res.r
           /\ setup' = [len |-> len, esize |-> esize, ret |-> res.ret]
    /\ UNCHANGED <<demo, hist, dynamic, seqvars, calls, thrvars>>

NextNew ==
    \E len \in Args, esize \in Args, malloc_ok \in BOOLEAN, ub \in Overflowed :
        Construct(len, esize, malloc_ok, ub)

SpecInit == InitNew /\ [][NextNew]_vars

(***************************************************************************)
(* The life of a ring: calls on it, then rb_deinit, which may be repeated.  *)
(***************************************************************************)

\* rb_deinit is called at most this many times in a row
MaxDeinits == 2

\* the program calls rb_deinit(&rb)
Deinit ==
    /\ call.op = "deinit" => call.rep < MaxDeinits
    /\ LET res == rb_deinit(rb)
       IN  /\ rb' = res.r
           /\ call' = [op |-> "deinit", len |-> Word(0), buf |-> <<>>,
                       ret |-> Word(0), got |-> <<>>, before |-> rb, queued |-> fifo,
                       rep |-> Rep("deinit", Word(0)), freed |-> res.freed]
    /\ fifo' = <<>>
    /\ W' = 0
    /\ R' = 0
    /\ UNCHANGED <<demo, hist, dynamic, setup, calls, thrvars>>

\* the ring has not been destroyed
Alive == call.op # "deinit"

LiveIn(buf) == Alive /\ In(buf)
LiveOut(len) == Alive /\ Out(len)
LivePeek(len) == Alive /\ Peek(len)

NextLife ==
    \/ \E buf \in Bufs : LiveIn(buf)
    \/ \E len \in Lens : LiveOut(len)
    \/ \E len \in Lens : LivePeek(len)
    \/ Deinit

SpecLife == Init /\ [][NextLife]_vars

(***************************************************************************)
(* A scripted run: a fresh heap ring from rb_init(&rb, 8, 1), on which the *)
(* calls of Moves are made in any order; hist keeps each call and what it  *)
(* returned and left behind.                                               *)
(***************************************************************************)

\* the calls of one scripted run
MaxMoves == 5

\* the calls of the written-out run, in order
Script ==
    <<[op |-> "in",  buf |-> <<1, 2, 3, 4, 5, 6>>, len |-> Word(6)],
      [op |-> "in",  buf |-> <<7, 8, 9>>,          len |-> Word(3)],
      [op |-> "out", buf |-> <<>>,                 len |-> Word(5)],
      [op |-> "in",  buf |-> <<9, 10>>,            len |-> Word(2)],
      [op |-> "out", buf |-> <<>>,                 len |-> Word(5)]>>

\* the calls a scripted run is made of
Moves == {Script[i] : i \in DOMAIN Script}

InitScript ==
    LET res  == rb_init(NewRing(TRUE), Word(8), Word(1), TRUE, TRUE, Word(0))
        ring == [res.r EXCEPT !.data = Storage(res.r)]
    IN  /\ res.ret = 0
        /\ rb = ring
        /\ dynamic = TRUE
        /\ setup = [len |-> Word(8), esize |-> Word(1), ret |-> res.ret]
        /\ call = NoCall(ring)
        /\ fifo = <<>>
        /\ W = 0
        /\ R = 0
        /\ calls = 0
        /\ prod = Idle
        /\ cons = Idle
        /\ sent = <<>>
        /\ recv = <<>>
        /\ hist = <<>>
        /\ demo = NoDemo

\* the call m is made: rb_in(&rb, m.buf, m.len) or rb_out(&rb, buf, m.len)
Play(m) ==
    /\ Len(hist) < MaxMoves
    /\ LET w   == rb_in(rb, m.buf, m.len)
           res == IF m.op = "in"
                  THEN [ret |-> w.ret, buf |-> <<>>, r |-> w.r]
                  ELSE rb_out(rb, m.len)
       IN  /\ rb' = res.r
           /\ hist' = Append(hist, [move |-> m, ret |-> res.ret, got |-> res.buf,
                                     avail |-> rb_avail(res.r),
                                     full |-> rb_is_full(res.r),
                                     data |-> res.r.data])
    /\ UNCHANGED <<demo, dynamic, setup, seqvars, calls, thrvars>>

NextScript == \E m \in Moves : Play(m)

SpecScript == InitScript /\ [][NextScript]_vars

(***************************************************************************)
(* Two threads: one producer in rb_in, one consumer in rb_out and rb_peek. *)
(* A call is taken apart into the steps of its body: the occupancy read,   *)
(* the two memcpy calls and the cursor update.  rb.c orders the accesses   *)
(* of the two threads to the struct by nothing (no atomics, no fences, no  *)
(* lock), so the two memcpy calls and the cursor update of one call take   *)
(* effect, as the other thread sees them, in any order: todo holds those   *)
(* that have not yet, ooo records that one overtook an earlier one.        *)
(***************************************************************************)

\* the calls the two threads make between them
MaxThreadCalls == 3
\* the longest request of a call of a thread, in bytes
MaxThreadLen == 3

\* what the threads call with: the producer offers 1, 2, ... bytes that
\* count up from 1, the consumer asks for as many or for UINT32_MAX
ThreadBufs == {Ramp(1, n) : n \in 1..MaxThreadLen}
ThreadLens == {Word(n) : n \in 1..MaxThreadLen} \cup {MaxWord}

\* the steps of a body that come before step s in rb.c
Earlier(s) ==
    CASE s = "copy1"  -> {}
      [] s = "copy2"  -> {"copy1"}
      [] s = "cursor" -> {"copy1", "copy2"}

\* thread t lets step s take effect
Take(t, s) == [t EXCEPT !.todo = @ \ {s}, !.ooo = @ \/ (Earlier(s) \cap t.todo # {})]

\* rb_in(&rb, buf, len) is entered
ProdCall(buf) ==
    /\ prod.pc = "idle"
    /\ calls < MaxThreadCalls
    /\ prod' = [prod EXCEPT !.pc = "enter", !.op = "in", !.buf = buf,
                             !.len = Word(Len(buf))]
    /\ calls' = calls + 1
    /\ UNCHANGED <<demo, hist, rb, dynamic, setup, seqvars, cons, sent, recv>>

\* left = rb_unused(r); len = min(len, left); l = min(len, ...)
ProdUnused ==
    /\ prod.pc = "enter"
    /\ LET len1 == min(prod.len, rb_unused(rb))
       IN  prod' = [prod EXCEPT !.pc = "body", !.len = len1, !.at = rb.in,
                                !.l = min(len1, Sub(rb.size, And(rb.in, rb.mask))),
                                !.todo = {"copy1", "copy2", "cursor"}]
    /\ UNCHANGED <<demo, hist, rb, dynamic, setup, seqvars, calls, cons, sent, recv>>

\* memcpy(r->data + (r->in & r->mask), buf, l)
ProdCopy1 ==
    /\ prod.pc = "body" /\ "copy1" \in prod.todo
    /\ rb' = [rb EXCEPT !.data = memcpy_to(rb.data, ToNat(And(prod.at, rb.mask)),
                                           prod.buf, 0, ToNat(prod.l))]
    /\ prod' = Take(prod, "copy1")
    /\ UNCHANGED <<demo, hist, dynamic, setup, seqvars, calls, cons, sent, recv>>

\* memcpy(r->data, buf + l, len - l)
ProdCopy2 ==
    /\ prod.pc = "body" /\ "copy2" \in prod.todo
    /\ rb' = [rb EXCEPT !.data = memcpy_to(rb.data, 0, prod.buf, ToNat(prod.l),
                                           ToNat(Sub(prod.len, prod.l)))]
    /\ prod' = Take(prod, "copy2")
    /\ UNCHANGED <<demo, hist, dynamic, setup, seqvars, calls, cons, sent, recv>>

\* r->in += len
ProdCursor ==
    /\ prod.pc = "body" /\ "cursor" \in prod.todo
    /\ rb' = [rb EXCEPT !.in = Add(prod.at, prod.len)]
    /\ prod' = Take(prod, "cursor")
    /\ sent' = sent \o SubSeq(prod.buf, 1, ToNat(prod.len))
    /\ UNCHANGED <<demo, hist, dynamic, setup, seqvars, calls, cons, recv>>

\* return len
ProdReturn ==
    /\ prod.pc = "body" /\ prod.todo = {}
    /\ prod' = [prod EXCEPT !.pc = "idle"]
    /\ UNCHANGED <<demo, hist, rb, dynamic, setup, seqvars, calls, cons, sent, recv>>

\* rb_out(&rb, buf, len) or rb_peek(&rb, buf, len) is entered
ConsCall(op, len) ==
    /\ cons.pc = "idle"
    /\ calls < MaxThreadCalls
    /\ cons' = [cons EXCEPT !.pc = "enter", !.op = op, !.len = len,
                             !.got1 = <<>>, !.got2 = <<>>]
    /\ calls' = calls + 1
    /\ UNCHANGED <<demo, hist, rb, dynamic, setup, seqvars, prod, sent, recv>>

\* avail = rb_avail(r); len = min(len, avail); l = min(len, ...)
ConsAvail ==
    /\ cons.pc = "enter"
    /\ LET len1 == min(cons.len, rb_avail(rb))
       IN  cons' = [cons EXCEPT !.pc = "body", !.len = len1, !.at = rb.out,
                                !.l = min(len1, Sub(rb.size, And(rb.out, rb.mask))),
                                !.todo = IF cons.op = "out"
                                         THEN {"copy1", "copy2", "cursor"}
                                         ELSE {"copy1", "copy2"}]
    /\ UNCHANGED <<demo, hist, rb, dynamic, setup, seqvars, calls, prod, sent, recv>>

\* memcpy(buf, r->data + (r->out & r->mask), l)
ConsCopy1 ==
    /\ cons.pc = "body" /\ "copy1" \in cons.todo
    /\ cons' = [Take(cons, "copy1") EXCEPT
                    !.got1 = memcpy_from(rb.data, ToNat(And(cons.at, rb.mask)),
                                         ToNat(cons.l))]
    /\ UNCHANGED <<demo, hist, rb, dynamic, setup, seqvars, calls, prod, sent, recv>>

\* memcpy(buf + l, r->data, len - l)
ConsCopy2 ==
    /\ cons.pc = "body" /\ "copy2" \in cons.todo
    /\ cons' = [Take(cons, "copy2") EXCEPT
                    !.got2 = memcpy_from(rb.data, 0, ToNat(Sub(cons.len, cons.l)))]
    /\ UNCHANGED <<demo, hist, rb, dynamic, setup, seqvars, calls, prod, sent, recv>>

\* r->out += len
ConsCursor ==
    /\ cons.pc = "body" /\ "cursor" \in cons.todo
    /\ rb' = [rb EXCEPT !.out = Add(cons.at, cons.len)]
    /\ cons' = Take(cons, "cursor")
    /\ UNCHANGED <<demo, hist, dynamic, setup, seqvars, calls, prod, sent, recv>>

\* return: the caller has got1 and then got2 in its buffer
ConsReturn ==
    /\ cons.pc = "body" /\ cons.todo = {}
    /\ cons' = [cons EXCEPT !.pc = "idle"]
    /\ recv' = IF cons.op = "out" THEN recv \o cons.got1 \o cons.got2 ELSE recv
    /\ UNCHANGED <<demo, hist, rb, dynamic, setup, seqvars, calls, prod, sent>>

NextThreads ==
    \/ \E buf \in ThreadBufs : ProdCall(buf)
    \/ ProdUnused
    \/ ProdCopy1
    \/ ProdCopy2
    \/ ProdCursor
    \/ ProdReturn
    \/ \E op \in {"out", "peek"}, len \in ThreadLens : ConsCall(op, len)
    \/ ConsAvail
    \/ ConsCopy1
    \/ ConsCopy2
    \/ ConsCursor
    \/ ConsReturn

SpecThreads == Init /\ [][NextThreads]_vars

(***************************************************************************)
(* The test program: main makes the ring, phtread_in writes messages (a    *)
(* struct head and a payload) and retries what rb_in did not take,         *)
(* phtread_out looks for the sync word, takes the head and then the        *)
(* payload out and compares the checksum.  Their calls of rb_in, rb_peek   *)
(* and rb_out are the steps of the two threads above.                      *)
(***************************************************************************)

\* the messages phtread_in prepares in one behaviour
MaxMsgs == 2
\* the len main passes to rb_init (256 in main, with payloads of 128..191)
DemoSize == 16
\* the payload lengths phtread_in draws from
PayloadLens == {4, 5}

\* sizeof(struct head): sync and len of 2 bytes, crc of 4
HeadLen == 8
\* the bytes of df_in.head.sync = 0xaa55, as they lie in memory
SyncLo == 85
SyncHi == 170

\* the k bytes of the number n, lowest first
Le(n, k) == [i \in 1..k |-> (n \div Pow2(8 * (i - 1))) % 256]

RECURSIVE check_sum(_)
\* check_sum: the sum of the bytes (0 for no bytes)
check_sum(buffer) ==
    IF buffer = <<>> THEN 0 ELSE Head(buffer) + check_sum(Tail(buffer))

\* the payload of the m-th message, n bytes
Payload(m, n) == [j \in 1..n |-> m]

\* df_in for a payload: head.sync, head.len, head.crc, buf[0 .. len - 1]
Dataflow(payload) ==
    <<SyncLo, SyncHi>> \o Le(Len(payload), 2) \o Le(check_sum(payload), 4) \o payload

\* main: rb_init(&rb, 256, 1), here with DemoSize, in a build with malloc
InitDemo ==
    LET res  == rb_init(NewRing(TRUE), Word(DemoSize), Word(1), TRUE, TRUE, Word(0))
        ring == [res.r EXCEPT !.data = Storage(res.r)]
    IN  /\ res.ret = 0
        /\ rb = ring
        /\ dynamic = TRUE
        /\ setup = [len |-> Word(DemoSize), esize |-> Word(1), ret |-> res.ret]
        /\ call = NoCall(ring)
        /\ fifo = <<>>
        /\ W = 0
        /\ R = 0
        /\ calls = 0
        /\ prod = Idle
        /\ cons = Idle
        /\ sent = <<>>
        /\ recv = <<>>
        /\ hist = <<>>
        /\ demo = NoDemo

\* phtread_in, top of the loop: with no error and a ring that is not full
\* it prepares a message of n payload bytes
DemoPrepare(n) ==
    /\ demo.p = "top"
    /\ demo.check_error = 0
    /\ ~rb_is_full(rb)
    /\ Len(demo.begun) < MaxMsgs
    /\ LET payload == Payload(Len(demo.begun) + 1, n)
       IN  demo' = [demo EXCEPT !.p = "call", !.msg = Dataflow(payload),
                                !.len = HeadLen + n, !.w_ofs = 0,
                                !.begun = Append(@, payload)]
    /\ UNCHANGED <<rb, dynamic, setup, seqvars, calls, thrvars, hist>>

\* nwrite = rb_in(r, (uint8_t *)&df_in + w_ofs, len): the call is entered
DemoWrite ==
    /\ demo.p = "call"
    /\ prod.pc = "idle"
    /\ prod' = [prod EXCEPT !.pc = "enter", !.op = "in",
                             !.buf = SubSeq(demo.msg, demo.w_ofs + 1,
                                            demo.w_ofs + demo.len),
                             !.len = Word(demo.len)]
    /\ demo' = [demo EXCEPT !.p = "ret"]
    /\ UNCHANGED <<rb, dynamic, setup, seqvars, calls, cons, sent, recv, hist>>

\* rb_in has returned nwrite: after a short write the thread waits while
\* the ring is full; then len -= nwrite, w_ofs += nwrite, while (len != 0)
DemoWritten ==
    /\ demo.p \in {"ret", "wait"}
    /\ prod.pc = "idle"
    /\ LET nwrite == ToNat(prod.len)
           short  == nwrite = 0 \/ nwrite < demo.len
       IN  IF demo.p = "ret" /\ short /\ rb_is_full(rb)
           THEN demo' = [demo EXCEPT !.p = "wait"]
           ELSE /\ demo.p = "wait" => ~rb_is_full(rb)
                /\ demo' = [demo EXCEPT
                               !.len = @ - nwrite,
                               !.w_ofs = @ + nwrite,
                               !.p = IF demo.len - nwrite # 0 THEN "call" ELSE "top",
                               !.written = IF demo.len - nwrite # 0 THEN @ ELSE @ + 1]
    /\ UNCHANGED <<rb, dynamic, setup, seqvars, calls, thrvars, hist>>

\* the least i < n - 1 with the sync word at buf[i], buf[i + 1]; n - 1 if
\* there is none
FindSync(buf, n) ==
    LET found == {i \in 0..(n - 2) : buf[i + 1] = SyncLo /\ buf[i + 2] = SyncHi}
    IN  IF found = {} THEN n - 1
        ELSE CHOOSE i \in found : \A j \in found : i <= j

\* the consumer enters rb_out(r, buf, len) or rb_peek(r, buf, len)
Enter(op, len) ==
    [cons EXCEPT !.pc = "enter", !.op = op, !.len = len, !.got1 = <<>>, !.got2 = <<>>]

\* phtread_out, top of the loop: with a head's worth of bytes in the ring,
\* avail_bytes = rb_avail(r); rb_peek(r, sync_buf, avail_bytes)
DemoPoll ==
    /\ demo.c = "top"
    /\ cons.pc = "idle"
    /\ ~Lt(rb_avail(rb), Word(HeadLen))
    /\ cons' = Enter("peek", rb_avail(rb))
    /\ demo' = [demo EXCEPT !.c = "peek", !.avail_bytes = rb_avail(rb)]
    /\ UNCHANGED <<rb, dynamic, setup, seqvars, calls, prod, sent, recv, hist>>

\* rb_peek has returned: the for loop looks for the sync word in sync_buf
\* (zeroed before the peek); without one all avail_bytes are discarded,
\* with one at i # 0 the i bytes before it
DemoScan ==
    /\ demo.c = "peek"
    /\ cons.pc = "idle"
    /\ LET n        == ToNat(demo.avail_bytes)
           got      == cons.got1 \o cons.got2
           sync_buf == [k \in 1..n |-> IF k <= Len(got) THEN got[k] ELSE 0]
           i        == FindSync(sync_buf, n)
       IN  IF i = n - 1
           THEN /\ cons' = Enter("out", demo.avail_bytes)
                /\ demo' = [demo EXCEPT !.c = "discard"]
           ELSE IF i # 0
           THEN /\ cons' = Enter("out", Word(i))
                /\ demo' = [demo EXCEPT !.c = "skip"]
           ELSE /\ cons' = cons
                /\ demo' = [demo EXCEPT !.c = "head"]
    /\ UNCHANGED <<rb, dynamic, setup, seqvars, calls, prod, sent, recv, hist>>

\* the rb_out that discards has returned: continue, or go on to the head
DemoDropped ==
    /\ demo.c \in {"discard", "skip"}
    /\ cons.pc = "idle"
    /\ demo' = [demo EXCEPT !.c = IF demo.c = "discard" THEN "top" ELSE "head"]
    /\ UNCHANGED <<rb, dynamic, setup, seqvars, calls, thrvars, hist>>

\* while (rb_avail(r) < sizeof(struct head)); then rb_out of the head
DemoReadHead ==
    /\ demo.c = "head"
    /\ cons.pc = "idle"
    /\ ~Lt(rb_avail(rb), Word(HeadLen))
    /\ cons' = Enter("out", Word(HeadLen))
    /\ demo' = [demo EXCEPT !.c = "gothead"]
    /\ UNCHANGED <<rb, dynamic, setup, seqvars, calls, prod, sent, recv, hist>>

\* df_out.head.len of the head that was read
HeadLenField(head) == head[3] + 256 * head[4]

\* the head is in df_out (zeroed before): while (rb_avail(r) <
\* df_out.head.len); then rb_out of the payload
DemoReadBody ==
    /\ demo.c = "gothead"
    /\ cons.pc = "idle"
    /\ LET got  == cons.got1 \o cons.got2
           head == [k \in 1..HeadLen |-> IF k <= Len(got) THEN got[k] ELSE 0]
       IN  /\ ~Lt(rb_avail(rb), Word(HeadLenField(head)))
           /\ cons' = Enter("out", Word(HeadLenField(head)))
           /\ demo' = [demo EXCEPT !.c = "body", !.head = head]
    /\ UNCHANGED <<rb, dynamic, setup, seqvars, calls, prod, sent, recv, hist>>

\* the payload is in df_out.buf: the checksum is compared with head.crc
DemoCheck ==
    /\ demo.c = "body"
    /\ cons.pc = "idle"
    /\ LET got == cons.got1 \o cons.got2
           crc == Le(check_sum(got), 4)
       IN  demo' = [demo EXCEPT
                       !.c = "top",
                       !.check_error = IF crc # SubSeq(demo.head, 5, 8)
                                       THEN (@ + 1) % 256 ELSE @,
                       !.read = Append(@, got)]
    /\ UNCHANGED <<rb, dynamic, setup, seqvars, calls, thrvars, hist>>

\* the steps of phtread_in and of phtread_out
Producer ==
    \/ \E n \in PayloadLens : DemoPrepare(n)
    \/ DemoWrite
    \/ DemoWritten
    \/ ProdUnused
    \/ ProdCopy1
    \/ ProdCopy2
    \/ ProdCursor
    \/ ProdReturn

Consumer ==
    \/ DemoPoll
    \/ DemoScan
    \/ DemoDropped
    \/ DemoReadHead
    \/ DemoReadBody
    \/ DemoCheck
    \/ ConsAvail
    \/ ConsCopy1
    \/ ConsCopy2
    \/ ConsCursor
    \/ ConsReturn

NextDemo ==
    \/ \E n \in PayloadLens : DemoPrepare(n)
    \/ DemoWrite
    \/ DemoWritten
    \/ ProdUnused
    \/ ProdCopy1
    \/ ProdCopy2
    \/ ProdCursor
    \/ ProdReturn
    \/ DemoPoll
    \/ DemoScan
    \/ DemoDropped
    \/ DemoReadHead
    \/ DemoReadBody
    \/ DemoCheck
    \/ ConsAvail
    \/ ConsCopy1
    \/ ConsCopy2
    \/ ConsCursor
    \/ ConsReturn

\* both threads keep running
SpecDemo == InitDemo /\ [][NextDemo]_vars /\ WF_vars(Producer) /\ WF_vars(Consumer)

\* every step of both threads so far took effect in the order of rb.c
InOrder == ~prod.ooo /\ ~cons.ooo

\* the test program when no step overtakes an earlier one
SpecDemoInOrder ==
    /\ InitDemo
    /\ [][NextDemo /\ InOrder']_vars
    /\ WF_vars(Producer /\ InOrder')
    /\ WF_vars(Consumer /\ InOrder')

(***************************************************************************)
(* Properties of the calls                                                 *)
(***************************************************************************)

\* the physical offset of a cursor
Offset(r, cursor) == ToNat(And(cursor, r.mask))

\* C1: after every rb_in and rb_out, whatever length was requested, the
\* occupancy rb_avail is at most the capacity rb_size (and, being unsigned,
\* at least 0).
C1_CapacityInvariant == ~Lt(rb_size(rb), rb_avail(rb))

\* a read of UINT32_MAX bytes has emptied a full buffer
C1_Witness ==
    /\ call.op = "out"
    /\ call.len = MaxWord
    /\ rb_avail(call.before) = rb_size(call.before)
    /\ rb_avail(rb) = Word(0)

\* C3, as stated: in any state, rb_in of a sequence S that fits in the
\* unused space, followed at once by rb_out of Len(S) bytes, returns S.
C3_RoundTripAnyState ==
    [][(/\ call.op = "in"
        /\ ~Lt(rb_unused(call.before), call.len)
        /\ call'.op = "out"
        /\ calls' = calls + 1
        /\ call'.len = call.len)
       => call'.got = call.buf]_vars

\* C3, amended: rb_in of a sequence S that fits in the unused space, followed
\* at once by rb_out of as many bytes as are then stored, returns the bytes
\* that were stored before S and then S; on an empty buffer that is S.
C3_RoundTrip ==
    [][(/\ call.op = "in"
        /\ ~Lt(rb_unused(call.before), call.len)
        /\ call'.op = "out"
        /\ calls' = calls + 1
        /\ call'.len = rb_avail(rb))
       => call'.got = call.queued \o call.buf]_vars

\* the second call read back, across the end of the storage, the bytes the
\* first call wrote into an empty buffer with room to spare
C3_Witness ==
    /\ calls = 2
    /\ call.op = "out"
    /\ 1 < W
    /\ W < ToNat(rb.size)
    /\ call.len = Word(W)
    /\ Len(call.got) = W
    /\ call.got = call.queued
    /\ Offset(rb, call.before.out) + W > ToNat(rb.size)

\* C4: the occupancy is the sum of the values rb_in returned minus the sum
\* of the values rb_out returned, and the latter never exceeds the former.
C4_Conservation == R <= W /\ rb_avail(rb) = Word(W - R)

\* more than the capacity was written in all, part of it read
C4_Witness == W > ToNat(rb.size) /\ R > 0 /\ W - R > 1

\* C5: rb_in returns min(len, unused space before the call); when len is
\* more than the unused space it returns that space and leaves the buffer
\* full.
C5_PartialWrite ==
    call.op = "in" =>
        LET free == rb_unused(call.before)
        IN  /\ call.ret = (IF Lt(call.len, free) THEN call.len ELSE free)
            /\ Lt(free, call.len) => (call.ret = free /\ rb_is_full(rb))

\* the same on a ring whose capacity is not 0
C5_PartialWriteSized == rb_size(rb) # Word(0) => C5_PartialWrite

\* a write of more than the unused space into a buffer neither empty nor full
C5_Witness ==
    /\ call.op = "in"
    /\ Lt(rb_unused(call.before), call.len)
    /\ rb_unused(call.before) # Word(0)
    /\ rb_avail(call.before) # Word(0)

\* C6: rb_in of exactly the unused space leaves the buffer full; rb_in on a
\* full buffer returns 0 and changes nothing; rb_out of exactly the stored
\* bytes leaves the buffer empty; rb_out on an empty buffer returns 0.
C6_FullEmptyBoundary ==
    /\ (call.op = "in" /\ call.len = rb_unused(call.before)) => rb_is_full(rb)
    /\ (call.op = "in" /\ rb_is_full(call.before))
           => (call.ret = Word(0) /\ rb = call.before)
    /\ (call.op = "out" /\ call.len = rb_avail(call.before)) => rb_is_empty(rb)
    /\ (call.op = "out" /\ rb_is_empty(call.before)) => call.ret = Word(0)

\* the same on a ring whose capacity is not 0
C6_FullEmptyBoundarySized == rb_size(rb) # Word(0) => C6_FullEmptyBoundary

\* a write of exactly the capacity filled the buffer, and the same write
\* was then refused twice
C6_Witness ==
    /\ call.op = "in"
    /\ call.rep = 3
    /\ call.len = rb.size
    /\ call.len # Word(0)
    /\ rb_is_full(call.before)
    /\ W = ToNat(rb.size)

\* C7: rb_peek changes neither the cursors, the storage nor the occupancy,
\* and a rb_peek that follows a rb_peek of the same len delivers the same
\* bytes.
C7_PeekIdempotent ==
    [][(call'.op = "peek" /\ calls' = calls + 1)
       => /\ rb' = rb
          /\ rb_avail(rb') = rb_avail(rb)
          /\ (call.op = "peek" /\ call.len = call'.len) => call'.got = call.got]_vars

\* the same peek, made twice in a row, delivered bytes from both ends of
\* the storage
C7_Witness ==
    /\ call.op = "peek"
    /\ call.rep >= 2
    /\ Len(call.got) >= 2
    /\ Offset(rb, rb.out) + Len(call.got) > ToNat(rb.size)

\* C8: each cursor advances by the value its call returns, modulo 2^32, and
\* is never reduced; the occupancy is the number of bytes stored and not
\* yet read, and rb_out returns them oldest first, also when a cursor has
\* wrapped past zero.
C8_CursorOverflow ==
    /\ rb_avail(rb) = Word(Len(fifo))
    /\ call.op = "in" => Sub(rb.in, call.before.in) = call.ret
    /\ call.op = "out" =>
           /\ Sub(rb.out, call.before.out) = call.ret
           /\ call.got = SubSeq(call.queued, 1, ToNat(call.ret))

\* the write cursor had wrapped past zero, the read cursor had not, and
\* this read took the read cursor past zero too
C8_Witness ==
    /\ call.op = "out"
    /\ Lt(call.before.in, call.before.out)
    /\ Lt(rb.out, call.before.out)
    /\ Len(call.got) > 1

\* C12: rb_in changes only the storage and the write cursor, rb_out only
\* the read cursor; the write cursor advances by the value rb_in returns
\* and the read cursor by the value rb_out returns.
C12_FrameEffect ==
    /\ call.op = "in" =>
           /\ [rb EXCEPT !.in = call.before.in, !.data = call.before.data] = call.before
           /\ rb.in = Add(call.before.in, call.ret)
    /\ call.op = "out" =>
           /\ [rb EXCEPT !.out = call.before.out] = call.before
           /\ rb.out = Add(call.before.out, call.ret)

\* a read of several bytes followed a write that changed the storage
C12_Witness ==
    /\ call.op = "out"
    /\ Len(call.got) > 1
    /\ rb.out # call.before.out
    /\ \E i \in DOMAIN rb.data : rb.data[i] # 0

\* C13: in every state reached from a successful rb_init, rb_is_full is
\* true exactly when the occupancy is the capacity, rb_is_empty exactly
\* when the cursors are equal, and the two are never true together.
C13_FullEmptyPredicates ==
    /\ rb_is_full(rb) <=> (rb_avail(rb) = rb_size(rb))
    /\ rb_is_empty(rb) <=> (rb.in = rb.out)
    /\ ~(rb_is_full(rb) /\ rb_is_empty(rb))

\* the same on a ring whose capacity is not 0
C13_FullEmptyPredicatesSized == rb_size(rb) # Word(0) => C13_FullEmptyPredicates

\* the first k calls made are the first k calls of Script
Scripted(k) ==
    /\ k <= Len(hist)
    /\ k <= Len(Script)
    /\ \A j \in 1..k : hist[j].move = Script[j]

\* C15: on a fresh ring of capacity 8, rb_in of 1..6 returns 6 and leaves 6
\* bytes; rb_in of 7, 8, 9 returns 2 and leaves the ring full; rb_out of 5
\* returns 1..5 and leaves 3 bytes; rb_in of 9, 10 returns 2 and puts them
\* at offsets 0 and 1; rb_out of 5 returns 6, 7, 8, 9, 10.
C15_Scenario ==
    /\ rb_size(rb) = Word(8)
    /\ Scripted(1) => (hist[1].ret = Word(6) /\ hist[1].avail = Word(6))
    /\ Scripted(2) => (hist[2].ret = Word(2) /\ hist[2].full)
    /\ Scripted(3) => /\ hist[3].ret = Word(5)
                      /\ hist[3].got = <<1, 2, 3, 4, 5>>
                      /\ hist[3].avail = Word(3)
    /\ Scripted(4) => /\ hist[4].ret = Word(2)
                      /\ hist[4].data[0] = 9
                      /\ hist[4].data[1] = 10
    /\ Scripted(5) => /\ hist[5].ret = Word(5)
                      /\ hist[5].got = <<6, 7, 8, 9, 10>>

\* the five calls of Script have been made
C15_Witness == Scripted(5) /\ Len(hist[5].got) = 5

\* C16: rb_deinit sets both cursors to 0, so that the ring reports empty,
\* and in a dynamic build gives the block back; a rb_deinit that follows a
\* rb_deinit changes nothing and gives nothing back.
C16_DeinitIdempotent ==
    call.op = "deinit" =>
        /\ rb.in = Word(0) /\ rb.out = Word(0)
        /\ rb_is_empty(rb)
        /\ call.before.heap = "block" => (call.freed = "block" /\ rb.heap = "null")
        /\ call.before.heap # "block" => call.freed = "none"
        /\ call.rep >= 2 => (rb = call.before /\ call.freed = "none")

\* a block that held unread bytes was given back, and rb_deinit was then
\* called again
C16_Witness ==
    /\ call.op = "deinit"
    /\ call.rep = 2
    /\ dynamic
    /\ rb.heap = "null"
    /\ calls > 1

\* C17: rb_peek(len) delivers the bytes rb_out(len) would return in the
\* same state, min(len, occupancy) of them, oldest first, and leaves the
\* read cursor where it is; a len beyond the occupancy is cut down to it.
C17_PeekAsRead ==
    call.op = "peek" =>
        /\ call.got = rb_out(call.before, call.len).buf
        /\ Word(Len(call.got)) = min(call.len, rb_avail(call.before))
        /\ call.got = SubSeq(call.queued, 1, Len(call.got))
        /\ rb.out = call.before.out

\* a peek of more than is stored delivered bytes from both ends of the
\* storage
C17_Witness ==
    /\ call.op = "peek"
    /\ Lt(rb_avail(call.before), call.len)
    /\ Len(call.got) >= 2
    /\ Offset(rb, rb.out) + Len(call.got) > ToNat(rb.size)

\* the physical offset of the i-th byte from a cursor of ring r
At(r, cursor, i) == Offset(r, Add(cursor, Word(i)))

\* C18: rb_in stores its i-th accepted byte at offset (in + i) & mask, a
\* first chunk of min(accepted, size - (in & mask)) bytes from in & mask on
\* and the rest from offset 0 on; every offset rb_in, rb_out and rb_peek
\* touch is below the capacity, every index into the caller's buffer below
\* the transferred length; rb_in changes no byte that is stored and unread.
C18_PhysicalLayout ==
    LET b    == call.before
        size == ToNat(b.size)
        off  == Offset(b, b.in)
        n    == ToNat(call.ret)
        l    == IF n < size - off THEN n ELSE size - off
    IN  /\ call.op = "in" =>
               /\ n <= Len(call.buf)
               /\ \A i \in 0..(n - 1) :
                      /\ At(b, b.in, i) < size
                      /\ At(b, b.in, i) = (IF i < l THEN off + i ELSE i - l)
                      /\ rb.data[At(b, b.in, i)] = call.buf[i + 1]
               /\ \A j \in DOMAIN rb.data :
                      (\A i \in 0..(n - 1) : j # At(b, b.in, i)) => rb.data[j] = b.data[j]
               /\ \A k \in 0..(ToNat(rb_avail(b)) - 1) :
                      rb.data[At(b, b.out, k)] = b.data[At(b, b.out, k)]
        /\ call.op \in {"out", "peek"} =>
               /\ Word(Len(call.got)) = min(call.len, rb_avail(b))
               /\ \A i \in 0..(Len(call.got) - 1) :
                      /\ At(b, b.out, i) < size
                      /\ call.got[i + 1] = b.data[At(b, b.out, i)]

\* a write in two chunks, the second from offset 0 on, beside unread bytes
C18_Witness ==
    /\ call.op = "in"
    /\ rb_avail(call.before) # Word(0)
    /\ Offset(call.before, call.before.in) + ToNat(call.ret) > ToNat(rb.size)
    /\ ToNat(call.ret) >= 2

(***************************************************************************)
(* Properties of rb_init                                                   *)
(***************************************************************************)

\* w is a power of two (and so is not 0)
IsPow2(w) == \E i \in 0..31 : w = Bit(i)

\* the product a * b does not fit in a uint32_t
Overflows(a, b) == a # Word(0) /\ Lt(Div(MaxWord, a), b)

\* C9: after every rb_init that returns 0, in either build, the capacity is
\* a power of two and not 0.
C9_PowerOfTwo == setup.ret = 0 => IsPow2(rb_size(rb))

\* C10: in a __DYNAMIC_MALLOC__ build, after every rb_init that returns 0
\* for a len and an esize that are not 0, the capacity is the smallest power of two that is at least len * esize.
C10_NextPowerOfTwo ==
    (dynamic /\ setup.ret = 0 /\ setup.len # Word(0) /\ setup.esize # Word(0)) =>
        /\ ~Overflows(setup.len, setup.esize)
        /\ IsPow2(rb_size(rb))
        /\ ~Lt(rb_size(rb), Mul(setup.len, setup.esize))
        /\ rb_size(rb) = Word(1)
           \/ Lt(Div(rb_size(rb), Word(2)), Mul(setup.len, setup.esize))

\* C11: rb_init returns an error when len or esize is 0, in either build,
\* and in a static build when RB_BUF_LEN / esize is not a power of two.
C11_InitRejects ==
    setup.ret # 1 =>
        /\ (setup.len = Word(0) \/ setup.esize = Word(0)) => setup.ret # 0
        /\ (/\ ~dynamic
            /\ setup.esize # Word(0)
            /\ ~IsPow2(Div(Word(RB_BUF_LEN), setup.esize))) => setup.ret # 0

\* the part of C11 about arguments that are 0
C11_ZeroArguments ==
    (setup.ret # 1 /\ (setup.len = Word(0) \/ setup.esize = Word(0))) => setup.ret # 0

(***************************************************************************)
(* Properties of the two threads                                           *)
(***************************************************************************)

\* s is a prefix of t
IsPrefix(s, t) == Len(s) <= Len(t) /\ s = SubSeq(t, 1, Len(s))

\* what the consumer has been given: the bytes rb_out returned, and after
\* them the bytes of a rb_peek that has just returned
Given ==
    IF cons.pc = "idle" /\ cons.op = "peek"
    THEN recv \o cons.got1 \o cons.got2
    ELSE recv

\* C2: with one producer and one consumer, the bytes given to the consumer
\* are at every moment a prefix of the bytes accepted from the producer.
C2_PrefixOrder == IsPrefix(Given, sent)

\* C14: with the two threads interleaved step by step, the occupancy stays
\* within the capacity in every intermediate state; the bytes a rb_in has
\* admitted but not yet published still fit in the unused space, and the
\* bytes a rb_out is about to remove are still stored.
C14_CursorsBounded ==
    /\ ~Lt(rb_size(rb), rb_avail(rb))
    /\ (prod.pc = "body" /\ "cursor" \in prod.todo) => ~Lt(rb_unused(rb), prod.len)
    /\ (cons.pc = "body" /\ "cursor" \in cons.todo) => ~Lt(rb_avail(rb), cons.len)

\* a rb_in that was cut short by the occupancy it read is about to publish
\* its cursor after the consumer has made room, and a rb_out is about to
\* advance its cursor after the producer has stored more
C14_Witness ==
    \/ /\ prod.pc = "body" /\ "cursor" \in prod.todo
       /\ ToNat(prod.len) < Len(prod.buf)
       /\ Lt(prod.len, rb_unused(rb))
       /\ rb_avail(rb) # Word(0)
    \/ /\ cons.pc = "body" /\ "cursor" \in cons.todo
       /\ cons.len # Word(0)
       /\ Lt(cons.len, rb_avail(rb))
       /\ rb_is_full(rb)

\* the same, as long as every step has taken effect in the order of rb.c
C2_PrefixInOrder == (~prod.ooo /\ ~cons.ooo) => IsPrefix(Given, sent)

(***************************************************************************)
(* Properties of the test program                                          *)
(***************************************************************************)

\* the m-th message has been written whole and its payload read
Delivered(m) ==
    /\ demo.written >= m
    /\ Len(demo.read) >= m
    /\ demo.read[m] = demo.begun[m]

\* C19: with both threads kept running, every message phtread_in has
\* prepared is in the end written whole and its payload read by
\* phtread_out; neither thread waits for ever.
C19_MessagesDelivered == \A m \in 1..MaxMsgs : (Len(demo.begun) >= m) ~> Delivered(m)

====
